---- MODULE Spec2Model ----
(***************************************************************************)
(* Complaint lifecycle, assignment ledger, status history and role-scoped  *)
(* listings of the civic issue backend (src/server.js).                    *)
(*                                                                         *)
(* The store is PostgreSQL reached through one shared client without       *)
(* transactions: every client.query is one atomic statement, and a handler *)
(* is suspended at every await, so the statements of concurrent requests   *)
(* interleave.  A request in flight occupies a slot of reqs; its pc names  *)
(* the statement it will issue next.                                       *)
(***************************************************************************)
EXTENDS Integers, Sequences, FiniteSets, TLC

\* ---------------------------------------------------------------- bounds
MaxProblems == 2      \* rows of the problems table
MaxHistory == 3       \* rows of the problem_status_history table
MaxSlots == 2         \* requests in flight at the same time
MaxParamLen == 3      \* characters of the :user_id path parameter
MaxFailures == 1      \* statements the store fails in one run
MaxDay == 2           \* days the clock runs through

\* ------------------------------------------------------------- constants
NULL == "NULL"        \* SQL NULL / JS undefined of a text value
NullId == 0           \* SQL NULL / JS undefined of an integer id (SERIAL ids start at 1)
NaN == -1             \* parseInt's NaN (no id is negative)
SqlError == -2        \* a statement the store rejects

Slots == 1..MaxSlots

\* Departments (name column of the departments table), transliterated:
\* "safai vibhag" is 'सफाई विभाग', "jal vibhag" is 'जल विभाग'.
SafaiVibhag == "safai vibhag"
JalVibhag == "jal vibhag"

\* The rows of the users table the model follows: id -> role, department.
\* Registration stores the role and the department the caller sends.
Users ==
  (1 :> [role |-> "citizen", department |-> NULL]) @@
  (2 :> [role |-> "field-worker", department |-> SafaiVibhag]) @@
  (3 :> [role |-> "department-head", department |-> SafaiVibhag]) @@
  (4 :> [role |-> "department-head", department |-> JalVibhag]) @@
  (5 :> [role |-> "district-magistrate", department |-> NULL]) @@
  (6 :> [role |-> "field-worker", department |-> SafaiVibhag]) @@
  (12 :> [role |-> "citizen", department |-> NULL])

UserIds == DOMAIN Users

\* req.user as authenticateToken sets it: the token's payload, which
\* generateToken builds from id, email and role only.  req.user.department
\* is therefore undefined in every handler.
ReqUser(actor) ==
  [id |-> actor, role |-> Users[actor].role, department |-> NULL]

\* ---------------------------------------------------------------- state
VARIABLES
  problems,   \* the problems table: a sequence, row i has id i
  history,    \* the problem_status_history table, in insertion order
  workers,    \* the workers table: user_id -> counters, for the rows that exist
  reqs,       \* the requests in flight, one per slot
  resp,       \* the response sent last
  failures,   \* how many statements the store has failed
  now         \* the store's clock (CURRENT_TIMESTAMP): day and hour

vars == <<problems, history, workers, reqs, resp, failures, now>>

Idle ==
  [pc |-> "idle", op |-> "none", actor |-> NullId, problem_id |-> NullId,
   worker_id |-> NullId, status |-> NULL]

NoResponse == [op |-> "none", actor |-> NullId, code |-> 0, rows |-> {}]

\* A response without rows: the status code of a mutation, or an error.
Response(op, actor, code) == [op |-> op, actor |-> actor, code |-> code, rows |-> {}]

\* The response of a listing: the ids of the problem rows it carries.
Listing(op, actor, rows) == [op |-> op, actor |-> actor, code |-> 200, rows |-> rows]

Init ==
  /\ problems = <<>>
  /\ history = <<>>
  /\ workers = [u \in {} |-> 0]
  /\ reqs = [s \in Slots |-> Idle]
  /\ resp = NoResponse
  /\ failures = 0
  /\ now = [day |-> 1, hour |-> 9]

\* ------------------------------------- text of parameters and form fields
\* A path parameter or form field is a sequence of characters.
Digits == {"0", "1", "2", "3", "4", "5", "6", "7", "8", "9"}
DigitValue(c) ==
  CASE c = "0" -> 0 [] c = "1" -> 1 [] c = "2" -> 2 [] c = "3" -> 3 [] c = "4" -> 4
    [] c = "5" -> 5 [] c = "6" -> 6 [] c = "7" -> 7 [] c = "8" -> 8 [] c = "9" -> 9

ParamAlphabet == {"1", "2", "_"}
ParamInputs == UNION {[1..n -> ParamAlphabet] : n \in 1..MaxParamLen}

\* The number the decimal digits among the first n characters of str spell.
RECURSIVE DigitsValue(_, _)
DigitsValue(str, n) ==
  IF n = 0 THEN 0
  ELSE IF str[n] \in Digits THEN 10 * DigitsValue(str, n - 1) + DigitValue(str[n])
  ELSE DigitsValue(str, n - 1)

\* How many leading characters of str are digits.
RECURSIVE LeadingDigits(_, _)
LeadingDigits(str, i) ==
  IF i <= Len(str) /\ str[i] \in Digits THEN 1 + LeadingDigits(str, i + 1) ELSE 0

\* JavaScript's parseInt: the longest prefix of digits, NaN when there is none.
parseInt(str) ==
  IF LeadingDigits(str, 1) = 0 THEN NaN ELSE DigitsValue(str, LeadingDigits(str, 1))

\* JavaScript's parseFloat, on texts without sign, point or exponent: the
\* longest prefix of digits, NaN when there is none.  What follows the digits
\* is ignored.
parseFloat(str) ==
  IF LeadingDigits(str, 1) = 0 THEN NaN ELSE DigitsValue(str, LeadingDigits(str, 1))

\* The store's reading of a text parameter compared with an integer column
\* (WHERE p.user_id = $1): the whole text must be an integer.  PostgreSQL
\* before 16 accepts decimal digits only; from 16 on its integer input also
\* accepts single underscores between digits ('1_2' is 12).  The repository
\* pins no version, so both outcomes are possible.
AllDigits(str) == Len(str) > 0 /\ \A i \in 1..Len(str) : str[i] \in Digits
Grouped(str) ==
  /\ Len(str) > 0
  /\ \A i \in 1..Len(str) : str[i] \in Digits \/ str[i] = "_"
  /\ str[1] \in Digits /\ str[Len(str)] \in Digits
  /\ \A i \in 1..(Len(str) - 1) : ~(str[i] = "_" /\ str[i + 1] = "_")
IntegerInput(str) ==
  IF AllDigits(str) THEN {DigitsValue(str, Len(str))}
  ELSE IF Grouped(str) THEN {SqlError, DigitsValue(str, Len(str))}
  ELSE {SqlError}

\* ------------------------------------------------------------- inputs
\* Category label arrays a reporter sends (problem_categories); <<>> is a
\* missing field.
GarbageWaste == "Garbage & Waste"
GarbageWasteLong == "Garbage & Waste (roadside dumps, no dustbins, poor segregation)"
WaterSupply == "Water Supply"

CategoryInputs == {<<>>, <<GarbageWaste>>, <<GarbageWasteLong>>, <<WaterSupply>>}

\* An uploaded image (req.file), by its content; NULL is a request without a
\* file.
ImageA == "image A"
ImageB == "image B"

\* A latitude or longitude field of the form, as text: <<>> is a missing or
\* empty field, "ab" has no number in it, "26a" starts with one.
LatitudeInputs == {<<>>, <<"a", "b">>, <<"2", "6">>, <<"9", "5">>, <<"2", "6", "a">>}
LongitudeInputs == {<<"8", "0">>, <<"1", "8", "1">>}

ProblemIdInputs == 1..(MaxProblems + 1) \* the last one never exists

\* The inputs of the requests under concurrency and under store failures: one
\* reporter, one category, the district-magistrate acting, two workers.
ConcurrentInputs ==
  [reporters |-> {1},
   categories |-> {<<GarbageWaste>>},
   latitudes |-> {<<"2", "6">>},
   longitudes |-> {<<"8", "0">>},
   files |-> {ImageA},
   notes |-> {NULL},
   actors |-> {5},
   worker_ids |-> {2, 6},
   profile_ids |-> {2, 6},
   departments |-> {NULL},
   statuses |-> {"not completed"},
   priorities |-> {NULL}]

\* The inputs of the requests whose effect the listings show: two reporters,
\* every category, explicit departments, two workers.
ScopeInputs ==
  [reporters |-> {1, 12},
   categories |-> {<<GarbageWaste>>, <<GarbageWasteLong>>, <<WaterSupply>>},
   latitudes |-> {<<"2", "6">>},
   longitudes |-> {<<"8", "0">>},
   files |-> {ImageA},
   notes |-> {NULL},
   actors |-> {5},
   worker_ids |-> {2, 6},
   profile_ids |-> {2},
   departments |-> {NULL, JalVibhag},
   statuses |-> {"completed"},
   priorities |-> {NULL}]

\* The inputs of the requests issued one at a time: a citizen, a field-worker
\* and the district-magistrate acting, every kind of worker id (99 is no row
\* of users), every status value and a priority.
SequentialInputs ==
  [reporters |-> {1},
   categories |-> {<<>>, <<GarbageWaste>>},
   latitudes |-> LatitudeInputs,
   longitudes |-> LongitudeInputs,
   files |-> {NULL, ImageA},
   notes |-> {NULL},
   actors |-> {1, 2, 5},
   worker_ids |-> {NullId, 1, 2, 99},
   profile_ids |-> {1, 2, 99},
   departments |-> {NULL},
   statuses |-> {NULL, "not completed", "in-progress", "completed", "rejected"},
   priorities |-> {NULL, "high"}]

\* The inputs of the requests the handlers refuse: a citizen, a field-worker
\* and the district-magistrate acting, with and without an image, on ids with
\* and without a complaint, with a worker id that is a row of users (2) and
\* one that is not (99).
RefusalInputs ==
  [reporters |-> {1},
   categories |-> {<<GarbageWaste>>},
   latitudes |-> {<<"2", "6">>},
   longitudes |-> {<<"8", "0">>},
   files |-> {NULL, ImageA},
   notes |-> {NULL},
   actors |-> {1, 2, 5},
   worker_ids |-> {2, 99},
   profile_ids |-> {2},
   departments |-> {NULL},
   statuses |-> {NULL, "in-progress"},
   priorities |-> {NULL, "high"}]

\* ------------------------------------------------------------ requests
InFlight(pc, op, actor, problem_id, worker_id, status) ==
  [pc |-> pc, op |-> op, actor |-> actor, problem_id |-> problem_id,
   worker_id |-> worker_id, status |-> status]

\* A request that arrives takes the first free slot (which slot it takes
\* changes nothing that follows).
Free(s) ==
  /\ reqs[s].pc = "idle"
  /\ \A t \in Slots : t < s => reqs[t].pc # "idle"

\* The handler answers: the slot is free again.
Reply(s, op, actor, code) ==
  /\ reqs' = [reqs EXCEPT ![s] = Idle]
  /\ resp' = Response(op, actor, code)

\* Room for one more history row, counting the rows the requests in flight
\* will still insert (the model's bound on the table).
HistoryRoom ==
  Len(history) + Cardinality({t \in Slots : reqs[t].pc = "history"}) < MaxHistory

HistoryRow(problem_id, status, updated_by_id) ==
  [problem_id |-> problem_id, status |-> status, updated_by_id |-> updated_by_id]

\* A handler that writes no history row (variant of InsertHistory).
InsertHistorySkipped(problem_id, status, updated_by_id) ==
  history' = history
\* A handler that puts the new row first (variant of InsertHistory).
InsertHistoryFirst(problem_id, status, updated_by_id) ==
  history' = <<HistoryRow(problem_id, status, updated_by_id)>> \o history
\* INSERT INTO problem_status_history (problem_id, status, updated_by_id, notes)
InsertHistory(problem_id, status, updated_by_id) ==
  history' = Append(history, HistoryRow(problem_id, status, updated_by_id))

\* A handler that does not look at result.rows.length (variant of ProblemExists).
ProblemExistsUnchecked(problem_id) == problem_id \in ProblemIdInputs
\* UPDATE problems ... WHERE id = $n RETURNING *: result.rows.length > 0
ProblemExists(problem_id) == problem_id \in 1..Len(problems)

\* ---------------------------------------------------- POST /api/problems
NewProblem(user_id, problem_categories, lat) ==
  [user_id |-> user_id,
   problem_categories |-> problem_categories,
   latitude |-> lat,
   status |-> "not completed",
   priority |-> "medium",
   assigned_worker_id |-> NullId,
   assigned_department |-> NULL,
   admin_image_base64 |-> NULL,
   completion_notes |-> NULL,
   created_at |-> now,
   updated_at |-> now]

CreateValid(file, problem_categories, latitude, longitude) ==
  /\ file # NULL
  /\ problem_categories # <<>> /\ latitude # <<>> /\ longitude # <<>>
  /\ parseFloat(latitude) # NaN /\ parseFloat(longitude) # NaN
  /\ parseFloat(latitude) >= -90 /\ parseFloat(latitude) <= 90
  /\ parseFloat(longitude) >= -180 /\ parseFloat(longitude) <= 180

\* Validation and the INSERT into problems.
CreateProblem(s, actor, file, problem_categories, latitude, longitude) ==
  /\ Free(s)
  /\ UNCHANGED <<failures, now>>
  /\ IF ~CreateValid(file, problem_categories, latitude, longitude)
     THEN /\ Reply(s, "create", actor, 400)
          /\ UNCHANGED <<problems, history, workers>>
     ELSE /\ Len(problems) < MaxProblems
          /\ HistoryRoom
          /\ problems' = Append(problems, NewProblem(actor, problem_categories, parseFloat(latitude)))
          /\ reqs' = [reqs EXCEPT ![s] =
               InFlight("history", "create", actor, Len(problems) + 1, NullId,
                        "not completed")]
          /\ UNCHANGED <<history, workers, resp>>

\* The INSERT of the initial status history row, then the response.
CreateHistory(s) ==
  /\ reqs[s].pc = "history" /\ reqs[s].op = "create"
  /\ UNCHANGED <<failures, now>>
  /\ InsertHistory(reqs[s].problem_id, "not completed", reqs[s].actor)
  /\ Reply(s, "create", reqs[s].actor, 200)
  /\ UNCHANGED <<problems, workers>>

\* ------------------------- POST /api/admin/problems/:problem_id/complete
\* An UPDATE that leaves the evidence of a completed complaint alone (variant
\* of CompletedRow).
CompletedRowKeepingEvidence(row, file, completion_notes) ==
  IF row.status = "completed" THEN [row EXCEPT !.updated_at = now]
  ELSE [row EXCEPT !.status = "completed",
                   !.admin_image_base64 = file,
                   !.completion_notes = completion_notes,
                   !.updated_at = now]
\* SET status = 'completed', admin_image_base64 = $2, completion_notes = $4,
\* updated_at = CURRENT_TIMESTAMP
CompletedRow(row, file, completion_notes) ==
  [row EXCEPT !.status = "completed",
              !.admin_image_base64 = file,
              !.completion_notes = completion_notes,
              !.updated_at = now]

\* A handler without the file check (variant of CompleteProblem).
CompleteProblemFileUnchecked(s, actor, problem_id, file, completion_notes) ==
  /\ Free(s)
  /\ UNCHANGED <<failures, now>>
  /\ IF ReqUser(actor).role \notin {"district-magistrate", "department-head", "field-worker"}
     THEN /\ Reply(s, "complete", actor, 403)
          /\ UNCHANGED <<problems, history, workers>>
     ELSE IF ~ProblemExists(problem_id)
     THEN /\ Reply(s, "complete", actor, 404)
          /\ UNCHANGED <<problems, history, workers>>
     ELSE /\ HistoryRoom
          /\ problems' = [problems EXCEPT ![problem_id] =
               CompletedRow(@, file, completion_notes)]
          /\ reqs' = [reqs EXCEPT ![s] =
               InFlight("history", "complete", actor, problem_id, NullId, "completed")]
          /\ UNCHANGED <<history, workers, resp>>

\* The role check, the file check and the UPDATE of the problem row.
CompleteProblem(s, actor, problem_id, file, completion_notes) ==
  /\ Free(s)
  /\ UNCHANGED <<failures, now>>
  /\ IF ReqUser(actor).role \notin {"district-magistrate", "department-head", "field-worker"}
     THEN /\ Reply(s, "complete", actor, 403)
          /\ UNCHANGED <<problems, history, workers>>
     ELSE IF file = NULL
     THEN /\ Reply(s, "complete", actor, 400)
          /\ UNCHANGED <<problems, history, workers>>
     ELSE IF ~ProblemExists(problem_id)
     THEN /\ Reply(s, "complete", actor, 404)
          /\ UNCHANGED <<problems, history, workers>>
     ELSE /\ HistoryRoom
          /\ problems' = [problems EXCEPT ![problem_id] =
               CompletedRow(@, file, completion_notes)]
          /\ reqs' = [reqs EXCEPT ![s] =
               InFlight("history", "complete", actor, problem_id, NullId, "completed")]
          /\ UNCHANGED <<history, workers, resp>>

CompleteHistory(s) ==
  /\ reqs[s].pc = "history" /\ reqs[s].op = "complete"
  /\ UNCHANGED <<failures, now>>
  /\ InsertHistory(reqs[s].problem_id, "completed", reqs[s].actor)
  /\ Reply(s, "complete", reqs[s].actor, 200)
  /\ UNCHANGED <<problems, workers>>

\* --------------------------- POST /api/admin/problems/:problem_id/assign
\* A role check that also admits field workers (variant of AssignAllowed).
AssignAllowedAnyStaff(role) ==
  role \in {"district-magistrate", "department-head", "field-worker"}
AssignAllowed(role) == role \in {"district-magistrate", "department-head"}

\* assigned_worker_id INTEGER REFERENCES users(id): NULL or a row of users.
WorkerForeignKey(worker_id) == worker_id = NullId \/ worker_id \in UserIds

\* The role check and the UPDATE of the problem row.
AssignProblem(s, actor, problem_id, worker_id, department) ==
  /\ Free(s)
  /\ UNCHANGED <<failures, now>>
  /\ IF ~AssignAllowed(ReqUser(actor).role)
     THEN /\ Reply(s, "assign", actor, 403)
          /\ UNCHANGED <<problems, history, workers>>
     ELSE IF ~ProblemExists(problem_id)
     THEN /\ Reply(s, "assign", actor, 404)
          /\ UNCHANGED <<problems, history, workers>>
     ELSE IF ~WorkerForeignKey(worker_id)
     THEN /\ Reply(s, "assign", actor, 500)
          /\ UNCHANGED <<problems, history, workers>>
     ELSE /\ HistoryRoom
          /\ problems' = [problems EXCEPT ![problem_id] =
               [@ EXCEPT !.assigned_worker_id = worker_id,
                         !.assigned_department = department,
                         !.status = "in-progress",
                         !.updated_at = now]]
          /\ reqs' = [reqs EXCEPT ![s] =
               InFlight("history", "assign", actor, problem_id, worker_id, "in-progress")]
          /\ UNCHANGED <<history, workers, resp>>

AssignHistory(s) ==
  /\ reqs[s].pc = "history" /\ reqs[s].op = "assign"
  /\ UNCHANGED <<failures, now>>
  /\ InsertHistory(reqs[s].problem_id, "in-progress", reqs[s].actor)
  /\ reqs' = [reqs EXCEPT ![s].pc = "workers"]
  /\ UNCHANGED <<problems, workers, resp>>

\* UPDATE workers SET total_assigned = total_assigned + 1 WHERE user_id = $1:
\* one statement, which changes the row of worker_id when there is one.
IncrementAssigned(worker_id) ==
  IF worker_id \in DOMAIN workers
  THEN [workers EXCEPT ![worker_id].total_assigned = @ + 1]
  ELSE workers

AssignWorkers(s) ==
  /\ reqs[s].pc = "workers" /\ reqs[s].op = "assign"
  /\ UNCHANGED <<failures, now>>
  /\ workers' = IncrementAssigned(reqs[s].worker_id)
  /\ Reply(s, "assign", reqs[s].actor, 200)
  /\ UNCHANGED <<problems, history>>

\* ---------------------------------- PATCH /api/admin/problems/:problem_id
PatchAllowed(role) ==
  role \in {"district-magistrate", "department-head", "field-worker"}

\* SET status = $1 (if (status)), priority = $2 (if (priority)), updated_at
PatchedRow(row, status, priority) ==
  [row EXCEPT !.status = IF status # NULL THEN status ELSE @,
              !.priority = IF priority # NULL THEN priority ELSE @,
              !.updated_at = now]

PatchProblem(s, actor, problem_id, status, priority) ==
  /\ Free(s)
  /\ UNCHANGED <<failures, now>>
  /\ IF ~PatchAllowed(ReqUser(actor).role)
     THEN /\ Reply(s, "patch", actor, 403)
          /\ UNCHANGED <<problems, history, workers>>
     ELSE IF ~ProblemExists(problem_id)
     THEN /\ Reply(s, "patch", actor, 404)
          /\ UNCHANGED <<problems, history, workers>>
     ELSE /\ problems' = [problems EXCEPT ![problem_id] = PatchedRow(@, status, priority)]
          /\ IF status # NULL
             THEN /\ HistoryRoom
                  /\ reqs' = [reqs EXCEPT ![s] =
                       InFlight("history", "patch", actor, problem_id, NullId, status)]
                  /\ UNCHANGED resp
             ELSE Reply(s, "patch", actor, 200)
          /\ UNCHANGED <<history, workers>>

PatchHistory(s) ==
  /\ reqs[s].pc = "history" /\ reqs[s].op = "patch"
  /\ UNCHANGED <<failures, now>>
  /\ InsertHistory(reqs[s].problem_id, reqs[s].status, reqs[s].actor)
  /\ Reply(s, "patch", reqs[s].actor, 200)
  /\ UNCHANGED <<problems, workers>>

\* ------------------------------------------------ the store fails
\* client.query rejects (connection lost, statement timeout): the handler's
\* catch answers 500.  No handler opens a transaction, so the statements it
\* has already issued stay applied.
QueryFails(s) ==
  /\ reqs[s].pc \in {"history", "workers"}
  /\ failures < MaxFailures
  /\ failures' = failures + 1
  /\ Reply(s, reqs[s].op, reqs[s].actor, 500)
  /\ UNCHANGED <<problems, history, workers, now>>

\* ------------------------------------------- POST /api/admin/workers
NewWorker == [total_assigned |-> 0, total_completed |-> 0]

\* INSERT INTO workers ... ON CONFLICT (user_id) DO UPDATE SET specializations,
\* current_status: a new row starts its counters at 0, an existing row keeps them.
CreateWorker(actor, user_id) ==
  /\ IF ~AssignAllowed(ReqUser(actor).role)
     THEN /\ resp' = Response("worker", actor, 403)
          /\ UNCHANGED workers
     ELSE IF ~(user_id \in UserIds /\ Users[user_id].role = "field-worker")
     THEN /\ resp' = Response("worker", actor, 404)
          /\ UNCHANGED workers
     ELSE /\ workers' = IF user_id \in DOMAIN workers THEN workers
                        ELSE workers @@ (user_id :> NewWorker)
          /\ resp' = Response("worker", actor, 200)
  /\ UNCHANGED <<problems, history, reqs, failures, now>>

\* ------------------------------------ GET /api/problems/user/:user_id
IsAdmin(role) == role \in {"district-magistrate", "department-head"}

\* "Users can only see their own problems unless they're admin": the comparison
\* reads parseInt(user_id), the query is given user_id as it came.
UserProblemsAllowed(actor, user_id) ==
  ~(ReqUser(actor).id # parseInt(user_id) /\ ~IsAdmin(ReqUser(actor).role))

\* SELECT p.* FROM problems p JOIN users u ON p.user_id = u.id WHERE p.user_id = $1
ProblemsOfUser(user_id) ==
  {i \in 1..Len(problems) : problems[i].user_id = user_id}

UserProblems(actor, user_id) ==
  /\ IF ~UserProblemsAllowed(actor, user_id)
     THEN resp' = Response("user problems", actor, 403)
     ELSE \E v \in IntegerInput(user_id) :
            IF v = SqlError
            THEN resp' = Response("user problems", actor, 500)
            ELSE resp' = Listing("user problems", actor, ProblemsOfUser(v))
  /\ UNCHANGED <<problems, history, workers, reqs, failures, now>>

\* ------------------------------------------- GET /api/admin/problems
\* The category table of the handler, in its order: department -> labels.
categoryMapping ==
  << [department |-> SafaiVibhag,
      labels |-> {"Garbage & Waste Management", "safai aur kachra prabandhan",
                  GarbageWaste, GarbageWasteLong, "Pollution (open garbage burning)"}],
     [department |-> JalVibhag,
      labels |-> {WaterSupply, "jal aapurti", "Water & Sanitation"}],
     [department |-> "sadak vibhag",
      labels |-> {"Roads & Transportation", "sadak aur parivahan", "Roads & Infrastructure"}],
     [department |-> "vidyut vibhag",
      labels |-> {"Electricity", "bijli", "Power & Utilities"}] >>

\* The words of a label, as far as the LIKE patterns can tell them apart
\* (LIKE is case sensitive: "garbage" is not "Garbage").
LabelWords(label) ==
  CASE label = GarbageWaste -> <<"Garbage", "&", "Waste">>
    [] label = GarbageWasteLong -> <<"Garbage", "&", "Waste", "(roadside dumps ...)">>
    [] label = WaterSupply -> <<"Water", "Supply">>
    [] OTHER -> <<label>>

\* problem_categories::text LIKE '%needle%'
CategoriesLike(problem_categories, needle) ==
  \E i \in 1..Len(problem_categories) :
    \E j \in 1..Len(LabelWords(problem_categories[i])) :
      LabelWords(problem_categories[i])[j] = needle

\* a = b in SQL where either side may be NULL: true only of two equal values.
SqlEquals(a, b) == a # NULL /\ b # NULL /\ a = b

\* A filter that knows the short garbage label only (variant of
\* DepartmentFilter).
DepartmentFilterExactLabel(row, department) ==
  \/ SqlEquals(row.assigned_department, department)
  \/ \E j \in 1..Len(row.problem_categories) : row.problem_categories[j] = GarbageWaste
\* The WHERE clause added for a department-head; $1 is req.user.department.
DepartmentFilter(row, department) ==
  \/ SqlEquals(row.assigned_department, department)
  \/ CategoriesLike(row.problem_categories, "Garbage")
  \/ CategoriesLike(row.problem_categories, "safai")
  \/ CategoriesLike(row.problem_categories, "Waste")

\* The WHERE clause added for a field-worker; $1 is req.user.id.
\* A filter that keeps every assigned complaint (variant of WorkerFilter).
WorkerFilterAnyAssigned(row, id) == row.assigned_worker_id # NullId
WorkerFilter(row, id) == row.assigned_worker_id # NullId /\ row.assigned_worker_id = id

AdminProblemsRows(actor) ==
  {i \in 1..Len(problems) :
     /\ ReqUser(actor).role = "department-head" =>
          DepartmentFilter(problems[i], ReqUser(actor).department)
     /\ ReqUser(actor).role = "field-worker" =>
          WorkerFilter(problems[i], ReqUser(actor).id)}

AdminProblems(actor) ==
  /\ IF ReqUser(actor).role \notin {"district-magistrate", "department-head", "field-worker"}
     THEN resp' = Response("admin problems", actor, 403)
     ELSE resp' = Listing("admin problems", actor, AdminProblemsRows(actor))
  /\ UNCHANGED <<problems, history, workers, reqs, failures, now>>

\* ------------------------------- GET /api/problems/:problem_id/history
\* A response that carries a body besides the rows.
Report(op, actor, rows, body) ==
  [op |-> op, actor |-> actor, code |-> 200, rows |-> rows, body |-> body]

\* SELECT psh.* ... WHERE psh.problem_id = $1 ORDER BY psh.created_at ASC.
\* The handler asks for a token and nothing else.
HistoryRows(problem_id) ==
  SelectSeq(history, LAMBDA row : row.problem_id = problem_id)

ProblemHistory(actor, problem_id) ==
  /\ resp' = Report("history", actor, {}, HistoryRows(problem_id))
  /\ UNCHANGED <<problems, history, workers, reqs, failures, now>>

\* ------------------------------------------------------------ the clock
\* Time passes: the clock moves to a later hour of the same or a later day.
HoursPerDay == 24
ClockHours == {9, HoursPerDay - 1}
Instant(t) == t.day * HoursPerDay + t.hour

Tick ==
  /\ \E day \in 1..MaxDay, hour \in ClockHours :
       /\ Instant([day |-> day, hour |-> hour]) > Instant(now)
       /\ now' = [day |-> day, hour |-> hour]
  /\ UNCHANGED <<problems, history, workers, reqs, resp, failures>>

\* ------------------------------------- GET /api/analytics/dashboard
AnalyticsAllowed(role) == role \in {"district-magistrate", "department-head"}

\* The rows the statistics are computed over: all of them, or for a
\* department-head those of the WHERE clause.
AnalyticsRows(actor) ==
  {i \in 1..Len(problems) :
     ReqUser(actor).role = "department-head" =>
       DepartmentFilter(problems[i], ReqUser(actor).department)}

\* COUNT(*) FILTER (WHERE status = ...)
CountStatus(rows, status) == Cardinality({i \in rows : problems[i].status = status})

\* EXTRACT(DAY FROM (updated_at - created_at)): the whole days of the interval.
ResolutionDays(row) == (Instant(row.updated_at) - Instant(row.created_at)) \div HoursPerDay

RECURSIVE SumResolutionDays(_)
SumResolutionDays(rows) ==
  IF rows = {} THEN 0
  ELSE LET i == CHOOSE i \in rows : TRUE
       IN ResolutionDays(problems[i]) + SumResolutionDays(rows \ {i})

\* COALESCE(AVG(CASE WHEN status = 'completed' THEN ... END), 0), as a
\* fraction: 0/1 when no row is completed.
AvgResolutionDays(rows) ==
  LET completed == {i \in rows : problems[i].status = "completed"}
  IN IF completed = {} THEN [sum |-> 0, of |-> 1]
     ELSE [sum |-> SumResolutionDays(completed), of |-> Cardinality(completed)]

\* unnest(problem_categories) ... GROUP BY category: label -> count.
CategoryBreakdown(rows) ==
  LET labels == UNION {{problems[i].problem_categories[j] :
                          j \in 1..Len(problems[i].problem_categories)} : i \in rows}
  IN [c \in labels |->
        Cardinality({i \in rows : \E j \in 1..Len(problems[i].problem_categories) :
                                    problems[i].problem_categories[j] = c})]

DashboardBody(rows) ==
  [totalComplaints |-> Cardinality(rows),
   pendingComplaints |-> CountStatus(rows, "not completed"),
   inProgressComplaints |-> CountStatus(rows, "in-progress"),
   completedComplaints |-> CountStatus(rows, "completed"),
   avgResolutionDays |-> AvgResolutionDays(rows),
   categoryBreakdown |-> CategoryBreakdown(rows)]

Dashboard(actor) ==
  /\ IF ~AnalyticsAllowed(ReqUser(actor).role)
     THEN resp' = Response("dashboard", actor, 403)
     ELSE resp' = Report("dashboard", actor, AnalyticsRows(actor),
                         DashboardBody(AnalyticsRows(actor)))
  /\ UNCHANGED <<problems, history, workers, reqs, failures, now>>

\* ----------------------------------------- GET /api/analytics/wards
\* categoryMapping[req.user.department] || [req.user.department]
DepartmentCategories(department) ==
  IF \E k \in 1..Len(categoryMapping) : categoryMapping[k].department = department
  THEN categoryMapping[CHOOSE k \in 1..Len(categoryMapping) :
                         categoryMapping[k].department = department].labels
  ELSE {department}

\* problem_categories && $2: the arrays share an element; NULL equals nothing.
Overlaps(problem_categories, labels) ==
  \E j \in 1..Len(problem_categories) :
    problem_categories[j] # NULL /\ problem_categories[j] \in labels \ {NULL}

\* WHERE (assigned_department = $1 OR problem_categories && $2)
WardFilter(row, department) ==
  \/ SqlEquals(row.assigned_department, department)
  \/ Overlaps(row.problem_categories, DepartmentCategories(department))

WardRows(actor) ==
  {i \in 1..Len(problems) :
     ReqUser(actor).role = "department-head" =>
       WardFilter(problems[i], ReqUser(actor).department)}

\* The CASE on latitude, in hundredths of a degree; BETWEEN takes the first
\* band that holds.
WardName(lat) ==
  CASE 100 * lat >= 2644 /\ 100 * lat <= 2646 -> "Ward 1 - Civil Lines"
    [] 100 * lat >= 2646 /\ 100 * lat <= 2648 -> "Ward 2 - Mall Road"
    [] 100 * lat >= 2648 /\ 100 * lat <= 2650 -> "Ward 3 - Swaroop Nagar"
    [] 100 * lat >= 2650 /\ 100 * lat <= 2652 -> "Ward 4 - Kidwai Nagar"
    [] OTHER -> "Ward 5 - Other Areas"

\* GROUP BY name: ward -> counts, for the wards that have a row.
WardsBody(rows) ==
  [name \in {WardName(problems[i].latitude) : i \in rows} |->
     LET ward == {i \in rows : WardName(problems[i].latitude) = name}
     IN [total_complaints |-> Cardinality(ward),
         resolved_complaints |-> CountStatus(ward, "completed"),
         pending_complaints |-> CountStatus(ward, "not completed")]]

Wards(actor) ==
  /\ IF ~AnalyticsAllowed(ReqUser(actor).role)
     THEN resp' = Response("wards", actor, 403)
     ELSE resp' = Report("wards", actor, {}, WardsBody(WardRows(actor)))
  /\ UNCHANGED <<problems, history, workers, reqs, failures, now>>

\* -------------------------------------- GET /api/analytics/activity
\* WHERE DATE(created_at) = CURRENT_DATE, and for a department-head the
\* WHERE clause of the dashboard.
ActivityRows(actor) ==
  {i \in AnalyticsRows(actor) : problems[i].created_at.day = now.day}

\* hour.toString().padStart(2, '0') followed by ":00"
DigitChar(d) == CHOOSE c \in Digits : DigitValue(c) = d
TimeLabel(hour) ==
  (IF hour < 10 THEN <<"0", DigitChar(hour)>>
   ELSE <<DigitChar(hour \div 10), DigitChar(hour % 10)>>) \o <<":", "0", "0">>

\* for (let hour = 0; hour < 24; hour++): one entry per hour, those the
\* query has no row for with zeros.
ActivityBody(rows) ==
  [k \in 1..HoursPerDay |->
     LET bucket == {i \in rows : problems[i].created_at.hour = k - 1}
     IN [time |-> TimeLabel(k - 1),
         complaints |-> Cardinality(bucket),
         resolved |-> CountStatus(bucket, "completed")]]

Activity(actor) ==
  /\ IF ~AnalyticsAllowed(ReqUser(actor).role)
     THEN resp' = Response("activity", actor, 403)
     ELSE resp' = Report("activity", actor, {}, ActivityBody(ActivityRows(actor)))
  /\ UNCHANGED <<problems, history, workers, reqs, failures, now>>

\* The requests that change the store, issued through the slots of `slots`
\* with inputs drawn from the sets of `in`.
Mutate(slots, in) ==
  \E s \in slots :
    \/ \E actor \in in.reporters, file \in in.files, cats \in in.categories,
          lat \in in.latitudes, lng \in in.longitudes :
         CreateProblem(s, actor, file, cats, lat, lng)
    \/ CreateHistory(s)
    \/ \E actor \in in.actors, problem_id \in ProblemIdInputs, file \in in.files,
          completion_notes \in in.notes :
         CompleteProblem(s, actor, problem_id, file, completion_notes)
    \/ CompleteHistory(s)
    \/ \E actor \in in.actors, problem_id \in ProblemIdInputs,
          worker_id \in in.worker_ids, department \in in.departments :
         AssignProblem(s, actor, problem_id, worker_id, department)
    \/ AssignHistory(s)
    \/ AssignWorkers(s)
    \/ \E actor \in in.actors, problem_id \in ProblemIdInputs,
          status \in in.statuses, priority \in in.priorities :
         PatchProblem(s, actor, problem_id, status, priority)
    \/ PatchHistory(s)
    \/ \E actor \in in.actors, user_id \in in.profile_ids :
         CreateWorker(actor, user_id)

\* Concurrent requests.
Next == Mutate(Slots, ConcurrentInputs)

Spec == Init /\ [][Next]_vars

\* Requests issued one at a time.
NextSeq == Mutate({1}, SequentialInputs)

SpecSeq == Init /\ [][NextSeq]_vars

\* Requests issued one at a time against a store that may fail a statement.
NextFail ==
  \/ Mutate({1}, ConcurrentInputs)
  \/ QueryFails(1)

SpecFail == Init /\ [][NextFail]_vars

\* Requests issued one at a time, many of which the handlers refuse.
NextRefusal == Mutate({1}, RefusalInputs)

SpecRefusal == Init /\ [][NextRefusal]_vars

\* Requests issued one at a time and the listings every user may ask for.
NextScope ==
  \/ Mutate({1}, ScopeInputs)
  \/ \E actor \in {1, 12, 5}, user_id \in ParamInputs : UserProblems(actor, user_id)
  \/ \E actor \in UserIds : AdminProblems(actor)

SpecScope == Init /\ [][NextScope]_vars

\* The inputs of the requests that complete a complaint more than once: two
\* images, with and without notes, a field-worker and the district-magistrate
\* acting.
EvidenceInputs ==
  [reporters |-> {1},
   categories |-> {<<GarbageWaste>>},
   latitudes |-> {<<"2", "6">>},
   longitudes |-> {<<"8", "0">>},
   files |-> {ImageA, ImageB},
   notes |-> {NULL, "swept"},
   actors |-> {2, 5},
   worker_ids |-> {2},
   profile_ids |-> {2},
   departments |-> {NULL},
   statuses |-> {"in-progress"},
   priorities |-> {NULL}]

\* Requests issued one at a time, with evidence that differs from request to
\* request.
NextEvidence == Mutate({1}, EvidenceInputs)

SpecEvidence == Init /\ [][NextEvidence]_vars

\* The inputs of the requests whose effect the history and the analytics
\* show: one reporter and every category.
AnalyticsInputs ==
  [reporters |-> {1},
   categories |-> {<<GarbageWaste>>, <<GarbageWasteLong>>, <<WaterSupply>>},
   latitudes |-> {<<"2", "6">>},
   longitudes |-> {<<"8", "0">>},
   files |-> {ImageA},
   notes |-> {NULL},
   actors |-> {5},
   worker_ids |-> {2},
   profile_ids |-> {2},
   departments |-> {NULL},
   statuses |-> {"completed"},
   priorities |-> {NULL}]

\* Requests issued one at a time and the status history a citizen who
\* reported a complaint, one who reported none and the district-magistrate may
\* ask for.
NextHistory ==
  \/ Mutate({1}, AnalyticsInputs)
  \/ \E actor \in {1, 12, 5}, problem_id \in ProblemIdInputs :
       ProblemHistory(actor, problem_id)

SpecHistory == Init /\ [][NextHistory]_vars

\* Requests issued one at a time while time passes, and the analytics a
\* citizen, the department-heads and the district-magistrate may ask for,
\* with the listing of the department-heads.
NextAnalytics ==
  \/ Mutate({1}, AnalyticsInputs)
  \/ Tick
  \/ \E actor \in {3, 4} : AdminProblems(actor)
  \/ \E actor \in {1, 3, 4, 5} : Dashboard(actor)
  \/ \E actor \in {1, 3, 4, 5} : Wards(actor)
  \/ \E actor \in {1, 3, 4, 5} : Activity(actor)

SpecAnalytics == Init /\ [][NextAnalytics]_vars

\* ======================================================================
\* Claims
\* ======================================================================
Role(id) == Users[id].role
ProblemIds == 1..Len(problems)

\* C1: in every reachable state a complaint whose status is 'completed' has
\* a completion evidence image (admin_image_base64 is not NULL).
C1_CompletedHasEvidence ==
  \A i \in ProblemIds :
    problems[i].status = "completed" => problems[i].admin_image_base64 # NULL

\* C2: once a complaint is 'completed', no step moves it to another status.
C2_CompletedIsTerminal ==
  [][\A i \in ProblemIds :
       problems[i].status = "completed" => problems'[i].status = "completed"]_vars

\* COALESCE(w.total_assigned, 0) of the workers analytics: the counter of a
\* user without a workers row reads 0.
TotalAssigned(table, worker_id) ==
  IF worker_id \in DOMAIN table THEN table[worker_id].total_assigned ELSE 0

\* The step in which slot s answers its assign request with success.
AssignSucceeds(s) ==
  /\ reqs[s].op = "assign" /\ reqs[s].pc = "workers"
  /\ reqs'[s].pc = "idle"
  /\ resp' = Response("assign", reqs[s].actor, 200)

\* C3: every successful assign of worker W increases W's total_assigned by
\* exactly 1, in every interleaving of concurrent assign requests.
C3_AssignIncrementsOnce ==
  [][\A s \in Slots :
       AssignSucceeds(s) =>
         TotalAssigned(workers', reqs[s].worker_id)
           = TotalAssigned(workers, reqs[s].worker_id) + 1]_vars

\* C4: of two concurrent assign requests for one complaint only one succeeds:
\* a request that is answered with success has its worker on the complaint,
\* and no other assign of the same complaint has applied its update meanwhile.
C4_OneAssignmentPersists ==
  [][\A s \in Slots :
       AssignSucceeds(s) =>
         /\ problems[reqs[s].problem_id].assigned_worker_id = reqs[s].worker_id
         /\ \A t \in Slots \ {s} :
              ~(reqs[t].op = "assign" /\ reqs[t].pc # "idle"
                /\ reqs[t].problem_id = reqs[s].problem_id)]_vars

\* The status history rows of complaint i, oldest first.
HistoryOf(i) == SelectSeq(history, LAMBDA h : h.problem_id = i)
Quiet == \A s \in Slots : reqs[s].pc = "idle"

\* C5: a request that fails partway applies nothing: between requests every
\* complaint row has its status history, and the newest history row carries
\* the status of the row (row update and history append go together).
C5_AllOrNothing ==
  Quiet =>
    \A i \in ProblemIds :
      /\ HistoryOf(i) # <<>>
      /\ HistoryOf(i)[Len(HistoryOf(i))].status = problems[i].status

\* C6: a listing of GET /api/problems/user/:user_id answered to a citizen
\* holds only complaints reported by that citizen.
C6_CitizenSeesOwnOnly ==
  (resp.op = "user problems" /\ Role(resp.actor) = "citizen") =>
    \A i \in resp.rows : problems[i].user_id = resp.actor

\* C7: the listing GET /api/admin/problems answers to a field-worker holds only
\* complaints whose assigned worker is that field-worker, whatever assign and
\* reassign requests came before.
C7_FieldWorkerSeesAssignedOnly ==
  [][(/\ resp' # resp
      /\ resp'.op = "admin problems"
      /\ Role(resp'.actor) = "field-worker") =>
       /\ resp'.code = 200
       /\ \A i \in resp'.rows :
            problems'[i].assigned_worker_id = resp'.actor]_vars

\* A field-worker has been listed a complaint that was assigned to another
\* worker first and to them afterwards.
C7_Witness ==
  /\ resp.op = "admin problems" /\ resp.code = 200
  /\ Role(resp.actor) = "field-worker"
  /\ \E i \in resp.rows :
       /\ problems[i].assigned_worker_id = resp.actor
       /\ Len(SelectSeq(HistoryOf(i), LAMBDA h : h.status = "in-progress")) >= 2

\* The routing rule: an explicit department assignment wins, otherwise the
\* first department of the category table that owns one of the categories.
RECURSIVE FirstOwner(_, _)
FirstOwner(problem_categories, k) ==
  IF k > Len(categoryMapping) THEN "unrouted"
  ELSE IF \E j \in 1..Len(problem_categories) :
            problem_categories[j] \in categoryMapping[k].labels
       THEN categoryMapping[k].department
       ELSE FirstOwner(problem_categories, k + 1)
route(problem_categories, assigned_department) ==
  IF assigned_department # NULL THEN assigned_department
  ELSE FirstOwner(problem_categories, 1)

\* C8: the listing answered to a department-head holds a complaint if and only
\* if route(categories, assigned department) is the department of that head.
C8_DepartmentHeadSeesRouted ==
  [][\A a \in UserIds :
       (Role(a) = "department-head" /\ AdminProblems(a)) =>
         resp'.rows = {i \in ProblemIds :
                         route(problems[i].problem_categories,
                               problems[i].assigned_department)
                           = Users[a].department}]_vars

\* C9: no complaint is in the listings of two department-heads of different
\* departments.
C9_AtMostOneDepartment ==
  \A a, b \in UserIds :
    (/\ Role(a) = "department-head" /\ Role(b) = "department-head"
     /\ Users[a].department # Users[b].department) =>
      AdminProblemsRows(a) \cap AdminProblemsRows(b) = {}

\* C10: an assign request of a field-worker or a citizen never passes the role
\* check (none is ever in flight), is answered 403, and the step that answers
\* it leaves the complaints, the status history and the worker counters as
\* they were.
C10_AssignRefusedWithoutEffect ==
  [][/\ \A s \in Slots :
          reqs'[s].op = "assign" =>
            Role(reqs'[s].actor) \notin {"field-worker", "citizen"}
     /\ (/\ resp' # resp
         /\ resp'.op = "assign"
         /\ Role(resp'.actor) \in {"field-worker", "citizen"}) =>
          /\ resp'.code = 403
          /\ UNCHANGED <<problems, history, workers>>]_vars

\* A field-worker with a workers row has been refused the assignment while a
\* complaint that is not assigned to them exists.
C10_Witness ==
  /\ resp = Response("assign", resp.actor, 403)
  /\ Role(resp.actor) = "field-worker"
  /\ resp.actor \in DOMAIN workers
  /\ \E i \in ProblemIds : problems[i].assigned_worker_id # resp.actor

\* The scope predicate of an actor over complaint i: a field-worker has the
\* complaints assigned to them, a department-head the complaints routed to
\* their department, the district-magistrate every complaint.
InScope(actor, i) ==
  CASE Role(actor) = "district-magistrate" -> TRUE
    [] Role(actor) = "field-worker" -> problems[i].assigned_worker_id = actor
    [] Role(actor) = "department-head" ->
         route(problems[i].problem_categories, problems[i].assigned_department)
           = Users[actor].department
    [] OTHER -> FALSE

\* The step in which slot s takes a request of kind op past its checks and
\* applies its UPDATE to the complaint.
Admitted(s, op) ==
  /\ reqs[s].pc = "idle"
  /\ reqs'[s].pc # "idle"
  /\ reqs'[s].op = op

\* C11: a complete, patch or assign request is applied to a complaint only if
\* the complaint is in the scope of the actor that issued it.
C11_MutationsWithinScope ==
  [][\A s \in Slots :
       (Admitted(s, "complete") \/ Admitted(s, "patch") \/ Admitted(s, "assign")) =>
         InScope(reqs'[s].actor, reqs'[s].problem_id)]_vars

\* C12: in every reachable state a complaint with an assigned worker has
\* status 'in-progress' or 'completed', never 'not completed'.
C12_AssignedHasAssignedStatus ==
  \A i \in ProblemIds :
    problems[i].assigned_worker_id # NullId =>
      problems[i].status \in {"in-progress", "completed"}

\* C13: in every reachable state the status of every complaint is one of
\* 'not completed', 'in-progress' and 'completed'.
C13_StatusIsLifecycleValue ==
  \A i \in ProblemIds :
    problems[i].status \in {"not completed", "in-progress", "completed"}

\* The step in which the request of slot s, having changed the complaint,
\* goes on from its history statement.
PastHistory(s) == reqs[s].pc = "history" /\ reqs'[s] # reqs[s]

\* The statuses of the history rows of complaint i, oldest first.
RECURSIVE Statuses(_)
Statuses(rows) ==
  IF rows = <<>> THEN <<>> ELSE <<Head(rows).status>> \o Statuses(Tail(rows))

\* C14: every operation that changes a complaint's status (or creates the
\* complaint) appends, before it answers, exactly one history entry for that
\* complaint carrying the new status and the acting user, and no other step
\* touches the history; so create, assign, complete leave 3 entries in order.
C14_OneEntryPerStatusChange ==
  [][/\ \A s \in Slots :
          PastHistory(s) =>
            history' = Append(history,
                         HistoryRow(reqs[s].problem_id,
                                    problems[reqs[s].problem_id].status,
                                    reqs[s].actor))
     /\ (\A s \in Slots : ~PastHistory(s)) => history' = history
     /\ \A i \in 1..Len(problems') :
          (i \notin ProblemIds \/ problems'[i].status # problems[i].status) =>
            \E s \in Slots :
              /\ reqs[s].pc = "idle" /\ reqs'[s].pc = "history"
              /\ reqs'[s].problem_id = i]_vars

\* Complaint i was created by a citizen, assigned by the district-magistrate
\* and completed by a field-worker: 3 entries, in that order.
C14_Witness ==
  /\ Quiet
  /\ \E i \in ProblemIds :
       /\ Statuses(HistoryOf(i)) = <<"not completed", "in-progress", "completed">>
       /\ HistoryOf(i)[1].updated_by_id = problems[i].user_id
       /\ Role(HistoryOf(i)[2].updated_by_id) = "district-magistrate"
       /\ Role(HistoryOf(i)[3].updated_by_id) = "field-worker"
       /\ problems[i].assigned_worker_id # NullId
       /\ problems[i].status = "completed"

\* C15: a patch request goes on to append a history entry only if its UPDATE
\* changed the status of the complaint; a patch that supplies the status the
\* complaint already has, or only a priority, appends none.
C15_PatchHistoryOnlyOnChange ==
  [][\A s \in Slots :
       (Admitted(s, "patch") /\ reqs'[s].pc = "history") =>
         problems'[reqs'[s].problem_id].status
           # problems[reqs'[s].problem_id].status]_vars

\* COALESCE(w.total_completed, 0) of the workers analytics.
TotalCompleted(table, worker_id) ==
  IF worker_id \in DOMAIN table THEN table[worker_id].total_completed ELSE 0

\* C16: when a complete request on a complaint with an assigned worker W
\* succeeds, W's total_completed has grown by exactly 1 from the request's
\* UPDATE to its answer (requests are issued one at a time).
C16_CompleteIncrementsCompleted ==
  [][\A s \in Slots :
       (/\ reqs[s].op = "complete" /\ reqs[s].pc = "history"
        /\ resp' = Response("complete", reqs[s].actor, 200)
        /\ problems[reqs[s].problem_id].assigned_worker_id # NullId) =>
         TotalCompleted(workers', problems[reqs[s].problem_id].assigned_worker_id)
           = TotalCompleted(workers, problems[reqs[s].problem_id].assigned_worker_id) + 1]_vars

\* A coordinate text is a number when all of it is: here, decimal digits.
IsNumber(text) == AllDigits(text)
NumberValue(text) == DigitsValue(text, Len(text))
LocationOk(latitude, longitude) ==
  /\ IsNumber(latitude) /\ IsNumber(longitude)
  /\ NumberValue(latitude) >= -90 /\ NumberValue(latitude) <= 90
  /\ NumberValue(longitude) >= -180 /\ NumberValue(longitude) <= 180

\* C17: a create request whose latitude or longitude is not a number, or is
\* outside [-90, 90] resp. [-180, 180], is answered 400 at once and adds no
\* complaint row and no history entry.
C17_BadLocationRejected ==
  [][\A s \in Slots, actor \in SequentialInputs.reporters, file \in SequentialInputs.files,
        cats \in SequentialInputs.categories,
        lat \in LatitudeInputs, lng \in LongitudeInputs :
       (~LocationOk(lat, lng) /\ CreateProblem(s, actor, file, cats, lat, lng)) =>
         /\ resp' = Response("create", actor, 400)
         /\ reqs'[s] = Idle
         /\ UNCHANGED <<problems, history, workers>>]_vars

\* C18: an assign request is applied only to a complaint that is not yet
\* completed and, when it names a worker, only with the id of a user with role
\* field-worker; otherwise it is rejected and changes nothing.
C18_AssignPreconditions ==
  [][\A s \in Slots :
       Admitted(s, "assign") =>
         /\ problems[reqs'[s].problem_id].status # "completed"
         /\ reqs'[s].worker_id # NullId =>
              /\ reqs'[s].worker_id \in UserIds
              /\ Role(reqs'[s].worker_id) = "field-worker"]_vars

\* The step is a request of `actor` on complaint id `problem_id`, issued
\* through slot s with any of the other inputs: an assign, a complete with an
\* image, or a patch.
RequestOn(s, actor, problem_id) ==
  \/ \E worker_id \in RefusalInputs.worker_ids,
        department \in RefusalInputs.departments :
       AssignProblem(s, actor, problem_id, worker_id, department)
  \/ CompleteProblem(s, actor, problem_id, ImageA, NULL)
  \/ \E status \in RefusalInputs.statuses,
        priority \in RefusalInputs.priorities :
       PatchProblem(s, actor, problem_id, status, priority)

\* C19: an assign, complete or patch request for a complaint id that does not
\* exist is answered at once, with 404 when the actor's role passes the role
\* check (403 otherwise), and changes no complaint, no history entry and no
\* worker counter.
C19_UnknownComplaintNotFound ==
  [][\A s \in Slots, actor \in RefusalInputs.actors,
        problem_id \in ProblemIdInputs \ ProblemIds :
       RequestOn(s, actor, problem_id) =>
         /\ resp'.code = IF resp'.op = "assign"
                         THEN (IF AssignAllowed(Role(actor)) THEN 404 ELSE 403)
                         ELSE (IF PatchAllowed(Role(actor)) THEN 404 ELSE 403)
         /\ resp'.actor = actor
         /\ reqs'[s] = Idle
         /\ UNCHANGED <<problems, history, workers>>]_vars

\* A not-found answer to a staff member while a complaint exists and a worker
\* has a counter.
C19_Witness ==
  /\ resp.code = 404
  /\ resp.op \in {"assign", "complete", "patch"}
  /\ Len(problems) > 0 /\ Len(history) > 0
  /\ DOMAIN workers # {}

\* C20: a complete request without an image is answered at once, with 400
\* when the actor's role passes the role check (403 otherwise), and changes
\* no complaint row and no history entry.
C20_CompleteNeedsEvidence ==
  [][\A s \in Slots, actor \in RefusalInputs.actors, problem_id \in ProblemIdInputs :
       CompleteProblem(s, actor, problem_id, NULL, NULL) =>
         /\ resp' = Response("complete", actor,
                      IF Role(actor) \in {"district-magistrate", "department-head",
                                          "field-worker"}
                      THEN 400 ELSE 403)
         /\ reqs'[s] = Idle
         /\ UNCHANGED <<problems, history, workers>>]_vars

\* A field-worker has been refused a completion for want of an image after a
\* complaint was assigned to them; the complaint is still 'in-progress'.
C20_Witness ==
  /\ Quiet
  /\ resp.op = "complete" /\ resp.code = 400
  /\ Role(resp.actor) = "field-worker"
  /\ \E i \in ProblemIds :
       /\ problems[i].status = "in-progress"
       /\ problems[i].assigned_worker_id = resp.actor
       /\ problems[i].admin_image_base64 = NULL
       /\ Len(HistoryOf(i)) = 2

\* C21: an assign request that carries no worker id is refused before any
\* state is touched: no such request is ever applied to a complaint.
C21_AssignNeedsWorker ==
  [][\A s \in Slots :
       Admitted(s, "assign") => reqs'[s].worker_id # NullId]_vars

\* The step in which a read of kind op is answered.
Answered(op) == resp' # resp /\ resp'.op = op

\* The dashboard of an empty complaint set.
ZeroDashboard(body) ==
  /\ body.totalComplaints = 0
  /\ body.pendingComplaints = 0
  /\ body.inProgressComplaints = 0
  /\ body.completedComplaints = 0
  /\ body.avgResolutionDays.sum = 0
  /\ DOMAIN body.categoryBreakdown = {}

\* C22: the dashboard answered to a district-magistrate or department-head
\* whose scope holds no complaint succeeds with every count 0, an average of
\* 0 days and an empty category breakdown.
C22_EmptyScopeZeroDashboard ==
  [][(/\ Answered("dashboard")
      /\ AnalyticsAllowed(Role(resp'.actor))
      /\ \A i \in ProblemIds : ~InScope(resp'.actor, i)) =>
       resp'.code = 200 /\ ZeroDashboard(resp'.body)]_vars

\* Complaints i and j differ in nothing but the garbage label they carry.
SameButLabel(i, j) ==
  /\ problems[i].problem_categories = <<GarbageWaste>>
  /\ problems[j].problem_categories = <<GarbageWasteLong>>
  /\ [problems[i] EXCEPT !.problem_categories = <<GarbageWasteLong>>] = problems[j]

DepartmentHeads == {a \in UserIds : Role(a) = "department-head"}

\* C23: two complaints that differ only in carrying the short or the long
\* "Garbage & Waste" label are in scope together: for every department-head,
\* the listing, the dashboard, the wards and the activity keep both or none.
C23_GarbageLabelsRouteTogether ==
  \A a \in DepartmentHeads, i \in ProblemIds, j \in ProblemIds :
    SameButLabel(i, j) =>
      /\ i \in AdminProblemsRows(a) <=> j \in AdminProblemsRows(a)
      /\ i \in AnalyticsRows(a) <=> j \in AnalyticsRows(a)
      /\ i \in WardRows(a) <=> j \in WardRows(a)
      /\ i \in ActivityRows(a) <=> j \in ActivityRows(a)

\* Both labels are on file and a department-head has been shown both.
C23_Witness ==
  /\ \E i \in ProblemIds, j \in ProblemIds : SameButLabel(i, j)
  /\ resp.op \in {"dashboard", "admin problems"}
  /\ resp.actor \in DepartmentHeads
  /\ resp.rows = ProblemIds

\* C24: whatever a read answers to a citizen belongs to complaints that
\* citizen reported; here, the status history answered to a citizen holds
\* entries of the citizen's own complaints only.
C24_CitizenReadsOwnOnly ==
  (resp.op = "history" /\ Role(resp.actor) = "citizen") =>
    \A k \in 1..Len(resp.body) :
      problems[resp.body[k].problem_id].user_id = resp.actor

\* The sum of total_complaints over the wards of a wards answer.
RECURSIVE WardsTotal(_, _)
WardsTotal(body, names) ==
  IF names = {} THEN 0
  ELSE LET name == CHOOSE name \in names : TRUE
       IN body[name].total_complaints + WardsTotal(body, names \ {name})

\* C25: what a department-head is answered agrees across the reads: the
\* dashboard's totalComplaints, the sum of total_complaints over the wards
\* and the number of complaints in the admin listing are the same number.
C25_HeadTotalsAgree ==
  [][\A a \in DepartmentHeads :
       ((Answered("dashboard") \/ Answered("wards") \/ Answered("admin problems"))
          /\ resp'.actor = a) =>
         LET wards == WardsBody(WardRows(a))
         IN /\ DashboardBody(AnalyticsRows(a)).totalComplaints
                 = WardsTotal(wards, DOMAIN wards)
            /\ WardsTotal(wards, DOMAIN wards) = Cardinality(AdminProblemsRows(a))]_vars

\* C26: the status history is append-only: every step leaves the entries
\* already there as they are and in their order, and adds at the end only.
C26_HistoryAppendOnly ==
  [][/\ Len(history') >= Len(history)
     /\ SubSeq(history', 1, Len(history)) = history]_vars

\* Requests of two kinds have added their entries after the first one.
C26_Witness ==
  /\ Len(history) = MaxHistory
  /\ \E k \in 2..Len(history) : history[k].status # history[1].status

\* C27: a complete request on a complaint that is already completed is
\* applied like the first one: the row keeps status 'completed' and takes the
\* image and the notes of the new request, and the request then appends one
\* history entry 'completed' for the complaint and answers 200.
C27_RecompleteReplacesEvidence ==
  [][\A s \in Slots :
       /\ \A actor \in EvidenceInputs.actors, problem_id \in ProblemIds,
             file \in EvidenceInputs.files, completion_notes \in EvidenceInputs.notes :
            (/\ problems[problem_id].status = "completed"
             /\ CompleteProblem(s, actor, problem_id, file, completion_notes)) =>
              /\ Admitted(s, "complete")
              /\ problems'[problem_id].status = "completed"
              /\ problems'[problem_id].admin_image_base64 = file
              /\ problems'[problem_id].completion_notes = completion_notes
       /\ (PastHistory(s) /\ reqs[s].op = "complete") =>
            /\ history' = Append(history,
                 HistoryRow(reqs[s].problem_id, "completed", reqs[s].actor))
            /\ resp' = Response("complete", reqs[s].actor, 200)]_vars

\* A complaint has been completed twice and both requests have been
\* answered; the row carries image B and notes.
C27_Witness ==
  /\ Quiet
  /\ resp = Response("complete", resp.actor, 200)
  /\ \E i \in ProblemIds :
       /\ Statuses(HistoryOf(i)) = <<"not completed", "completed", "completed">>
       /\ problems[i].status = "completed"
       /\ problems[i].admin_image_base64 = ImageB
       /\ problems[i].completion_notes = "swept"

\* How many times complaint i has been assigned so far.
TimesAssigned(i) ==
  Len(SelectSeq(HistoryOf(i), LAMBDA h : h.status = "in-progress"))

\* C28: when a complaint that already had a worker is assigned to worker B,
\* the request adds exactly 1 to B's total_assigned and leaves the counters of
\* every other worker as they are; and no step ever lowers a counter.
C28_ReassignCountsNewWorker ==
  [][/\ \A s \in Slots :
          (AssignSucceeds(s) /\ TimesAssigned(reqs[s].problem_id) >= 2) =>
            /\ TotalAssigned(workers', reqs[s].worker_id)
                 = TotalAssigned(workers, reqs[s].worker_id) + 1
            /\ \A w \in DOMAIN workers \ {reqs[s].worker_id} : workers'[w] = workers[w]
     /\ \A w \in DOMAIN workers :
          /\ w \in DOMAIN workers'
          /\ workers'[w].total_assigned >= workers[w].total_assigned
          /\ workers'[w].total_completed >= workers[w].total_completed]_vars

\* The sum of the complaints counts of the first k entries of an activity
\* answer.
RECURSIVE ActivityTotal(_, _)
ActivityTotal(body, k) ==
  IF k = 0 THEN 0 ELSE body[k].complaints + ActivityTotal(body, k - 1)

\* The complaints in the scope of actor that were created on the current date.
ScopedToday(actor) ==
  {i \in ProblemIds : InScope(actor, i) /\ problems[i].created_at.day = now.day}

\* The entries of an activity answer are the 24 hours 00:00 .. 23:00 in
\* ascending order with numbers for counts.
HourlyShape(body) ==
  /\ DOMAIN body = 1..24
  /\ \A k \in 1..24 :
       /\ Len(body[k].time) = 5
       /\ parseInt(body[k].time) = k - 1
       /\ SubSeq(body[k].time, 3, 5) = <<":", "0", "0">>
       /\ body[k].complaints \in Nat
       /\ body[k].resolved \in Nat

\* C29: the activity answered to a district-magistrate or department-head
\* has 24 entries 00:00 .. 23:00 in ascending order with numeric counts; the
\* entry of an hour counts the complaints in the actor's scope created in
\* that hour of the current date (0 when there is none), so the complaints
\* counts add up to the number of in-scope complaints created today.
C29_ActivityHourly ==
  [][(Answered("activity") /\ AnalyticsAllowed(Role(resp'.actor))) =>
       /\ resp'.code = 200
       /\ HourlyShape(resp'.body)
       /\ \A k \in 1..24 :
            resp'.body[k].complaints =
              Cardinality({i \in ScopedToday(resp'.actor) :
                             problems[i].created_at.hour = k - 1})
       /\ ActivityTotal(resp'.body, 24) = Cardinality(ScopedToday(resp'.actor))]_vars

====
